---- MODULE Spec2Model ----
(***************************************************************************)
(* State-machine model of blender_auto_render.py: the host scene (object   *)
(* visibility flags, NLA track mute flags, current frame, frame range,     *)
(* render file path), the interpreter position (pc, call stack, locals of  *)
(* each function of the script) and the trace of calls and host            *)
(* operations performed so far.                                            *)
(***************************************************************************)
EXTENDS Integers, Sequences, FiniteSets, TLC

(***************************************************************************)
(* The scene the script assumes (header comment, lines 4-7).               *)
(***************************************************************************)
\* bpy.data.objects: the objects the header says are present.
Objects == {"rig", "visibleground", "ShadowPlane"}

\* Names handed to bpy.data.objects.get: the scene's objects and one that does
\* not resolve (get returns None).
Names == Objects \cup {"missing"}

\* Objects whose animation_data is not None.
AnimObjects == {"rig", "ShadowPlane"}

\* animation_data.nla_tracks of an object: the track names it can be indexed by.
nla_tracks(o) ==
    IF o = "rig" THEN {"reset", "Idle1", "Walk", "Rotation"} ELSE {"reset"}

\* animation_list of run_case (line 89).
animation_list == <<"Idle1", "Walk">>

\* The frame reset_tracks sets (lines 53 and 61).
ResetFrame == 1

\* start_frame of run_case (line 80).
StartFrame == 1

\* bpy.context.scene.frame_end for "squirrel" (line 85).
SquirrelFrameEnd == 160

\* step of run_case (line 99).
Step == 2

\* Width given to zfill (line 49).
ZFillWidth == 3

(***************************************************************************)
(* Bounds of the inputs the specifications draw from.                      *)
(***************************************************************************)
\* Longest list of names given to hide_objects and reset_tracks.
MaxNames == 2

\* Largest end_frame - start_frame given to write_animations2.
MaxSpan == 3

\* Largest step given to write_animations2.
MaxStep == 3

\* start_frame values given to write_animations2.
StartFrames == {0, 1, 8, 98, 998}

\* animal_name values given to run_case.
Animals == {"squirrel", "Squirrel", "cat"}

\* Values of scene.frame_current and scene.frame_end before the script runs.
InitialFrames == {1, 7}
InitialFrameEnds == {160, 250}

(***************************************************************************)
(* Python strings.                                                         *)
(***************************************************************************)
Min(a, b) == IF a < b THEN a ELSE b

\* The sequences over S of length at most n.
SeqsUpTo(S, n) == UNION {[1..k -> S] : k \in 0..n}

\* The position of the one-character string c in s, 0 when it is not there.
IndexIn(s, c) ==
    IF \E i \in 1..Len(s) : SubSeq(s, i, i) = c
    THEN CHOOSE i \in 1..Len(s) : SubSeq(s, i, i) = c
    ELSE 0

\* ord(c) for a one-character ASCII string c among "-./", digits, letters, "_".
Ord(c) ==
    IF IndexIn("-./0123456789", c) > 0 THEN 44 + IndexIn("-./0123456789", c)
    ELSE IF IndexIn("ABCDEFGHIJKLMNOPQRSTUVWXYZ", c) > 0
         THEN 64 + IndexIn("ABCDEFGHIJKLMNOPQRSTUVWXYZ", c)
    ELSE IF c = "_" THEN 95
    ELSE 96 + IndexIn("abcdefghijklmnopqrstuvwxyz", c)

RECURSIVE Digits(_)
\* str(n) for n >= 0.
Digits(n) ==
    IF n < 10 THEN SubSeq("0123456789", n + 1, n + 1)
    ELSE Digits(n \div 10) \o SubSeq("0123456789", (n % 10) + 1, (n % 10) + 1)

\* str(n) for an int n.
Str(n) == IF n < 0 THEN "-" \o Digits(-n) ELSE Digits(n)

RECURSIVE Zeros(_)
Zeros(k) == IF k <= 0 THEN "" ELSE "0" \o Zeros(k - 1)

\* zfill as a slip would leave it: the padding forgotten.
zfill_none(s, width) == s

\* s.zfill(width): zeros go after a leading sign.
zfill(s, width) ==
    IF Len(s) >= width THEN s
    ELSE IF Len(s) > 0 /\ SubSeq(s, 1, 1) \in {"-", "+"}
         THEN SubSeq(s, 1, 1) \o Zeros(width - Len(s)) \o SubSeq(s, 2, Len(s))
         ELSE Zeros(width - Len(s)) \o s

\* Line 49 as a slip would leave it: zfill(2).
FramePath_width2(output_path, frame) ==
    output_path \o "_" \o zfill(Str(frame), 2) \o ".png"

\* The file path write_animations2 builds for a frame (line 49).
FramePath(output_path, frame) ==
    output_path \o "_" \o zfill(Str(frame), ZFillWidth) \o ".png"

RECURSIVE StrLess(_, _)
\* s < t on Python strings: by code point, a proper prefix first.
StrLess(s, t) ==
    IF Len(t) = 0 THEN FALSE
    ELSE IF Len(s) = 0 THEN TRUE
    ELSE IF SubSeq(s, 1, 1) = SubSeq(t, 1, 1)
         THEN StrLess(SubSeq(s, 2, Len(s)), SubSeq(t, 2, Len(t)))
         ELSE Ord(SubSeq(s, 1, 1)) < Ord(SubSeq(t, 1, 1))

\* os.path.join(a, b) on a POSIX host.
PathJoin(a, b) ==
    IF Len(b) > 0 /\ SubSeq(b, 1, 1) = "/" THEN b
    ELSE IF Len(a) = 0 \/ SubSeq(a, Len(a), Len(a)) = "/" THEN a \o b
    ELSE a \o "/" \o b

\* base_path of run_case (line 71); "//" stands for the scene file's directory.
base_path == PathJoin("//", "renders") \o "/"

\* zip(a, b, c) (line 38).
Zip(a, b, c) ==
    [i \in 1..Min(Len(a), Min(Len(b), Len(c))) |-> <<a[i], b[i], c[i]>>]

\* mute_rig of run_case (line 78).
mute_rig == <<>>

\* The directories os.makedirs(path) leaves on disk: path and its ancestors
\* below the scene file's directory "//".
MakeDirs(path) ==
    {path} \cup {SubSeq(path, 1, i - 1) :
                    i \in {j \in 3..Len(path) : SubSeq(path, j, j) = "/"}}

VARIABLES
    hide_render,      \* obj.hide_render of each scene object
    hide_viewport,    \* obj.hide_viewport of each scene object
    mute,             \* obj.animation_data.nla_tracks[t].mute
    frame_current,    \* bpy.context.scene.frame_current
    frame_start,      \* bpy.context.scene.frame_start
    frame_end,        \* bpy.context.scene.frame_end
    filepath,         \* bpy.context.scene.render.filepath
    dirs,             \* directories that exist on disk
    stdout,           \* lines printed
    pc,               \* position of the interpreter
    stack,            \* return positions of the calls in progress
    error,            \* the exception that ended the run, if any
    rc,               \* run_case: animal_name, objects, the for loop, anim, end_frame
    h,                \* hide_objects: objects, true_or_false, loop index
    r,                \* reset_tracks: obj, loop index
    m,                \* mute_and_unmute: the zipped list, loop index
    w,                \* write_animations2: its parameters, the next frame of the range
    rf,               \* render_frame: frame, filepath
    trace,            \* calls, returns and host operations so far, in order
    hist              \* scene snapshots taken at the top-level calls

scene == <<hide_render, hide_viewport, mute, frame_current, frame_start,
           frame_end, filepath>>
vars == <<scene, dirs, stdout, pc, stack, error, rc, h, r, m, w, rf, trace, hist>>

\* What is compared across calls: the flags and the current frame.
Snapshot ==
    [hide_render |-> hide_render, hide_viewport |-> hide_viewport,
     mute |-> mute, frame_current |-> frame_current]

NoError == [type |-> "", line |-> 0]

\* A local that is not bound (yet).
Unbound == [bound |-> FALSE, val |-> <<>>]

\* Locals of functions that have not been called.
NoRC == [animal_name |-> "", objects |-> Unbound, anims_left |-> <<>>,
         anim |-> "", end_frame |-> 0, unmute_rig |-> <<>>]
NoH == [objects |-> <<>>, true_or_false |-> FALSE, i |-> 1]
NoR == [obj |-> <<>>, i |-> 1]
NoM == [zipped |-> <<>>, i |-> 1]
NoW == [output_path |-> "", step |-> 1, start_frame |-> 0, end_frame |-> 0, next |-> 0]
NoRF == [frame |-> 0, filepath |-> ""]

\* Any visibility flags, as the scene may hold before the script touches it.
AnyFlags ==
    /\ hide_render \in [Objects -> BOOLEAN]
    /\ hide_viewport \in [Objects -> BOOLEAN]

\* Every object visible.
AllVisible ==
    /\ hide_render = [o \in Objects |-> FALSE]
    /\ hide_viewport = [o \in Objects |-> FALSE]

\* Any mute flags on the tracks of the animated objects.
AnyMute ==
    mute \in {f \in [AnimObjects -> UNION {[nla_tracks(o) -> BOOLEAN] : o \in AnimObjects}] :
                \A o \in AnimObjects : DOMAIN f[o] = nla_tracks(o)}

\* Every track unmuted.
NoneMuted == mute = [o \in AnimObjects |-> [t \in nla_tracks(o) |-> FALSE]]

\* The rest of the scene: the start of the frame range and the render path.
RestOfScene ==
    /\ frame_start = 1
    /\ filepath = "/tmp/"

\* The interpreter before any call, apart from the locals of the function called.
IdleInit ==
    /\ stdout = <<>>
    /\ stack = <<>>
    /\ error = NoError
    /\ trace = <<>>

(***************************************************************************)
(* Calls, returns and faults.                                              *)
(***************************************************************************)
CallEvent(fn, args) == [op |-> "call", fn |-> fn, args |-> args]
ReturnEvent(fn) == [op |-> "return", fn |-> fn]

\* Function fn is called from a position that resumes at ret.
Call(fn, args, ret) ==
    /\ pc' = fn
    /\ stack' = <<ret>> \o stack
    /\ trace' = Append(trace, CallEvent(fn, args))

\* Function fn returns, tr being the trace up to there: to its caller, or the
\* top-level call is done.
Return(fn, tr) ==
    /\ trace' = Append(tr, ReturnEvent(fn))
    /\ IF stack = <<>>
       THEN pc' = "done" /\ stack' = stack
       ELSE pc' = Head(stack) /\ stack' = Tail(stack)

\* An uncaught exception ends the run, tr being the trace up to there.
Raise(type, line, tr) ==
    /\ pc' = "fault"
    /\ error' = [type |-> type, line |-> line]
    /\ trace' = tr
    /\ UNCHANGED stack

(***************************************************************************)
(* hide_objects (lines 64-68).                                             *)
(***************************************************************************)
HideEvent(x, v) == [op |-> "hide", obj |-> x, val |-> v]

\* Lines 67-68 as a slip would leave them: the flag flipped when true_or_false
\* is True, instead of set.
SetHidden_toggle(flags, x, true_or_false) ==
    [flags EXCEPT ![x] = (flags[x] # true_or_false)]

\* Lines 67-68 on the flags of a resolved object x.
SetHidden(flags, x, true_or_false) == [flags EXCEPT ![x] = true_or_false]

\* One turn of the for loop of line 65, or its end.
hide_objects_for ==
    /\ pc = "hide_objects"
    /\ IF h.i > Len(h.objects)
       THEN /\ Return("hide_objects", trace)
            /\ UNCHANGED <<scene, error, h>>
       ELSE LET x == h.objects[h.i] IN
            IF x \notin Objects
            THEN /\ Raise("AttributeError", 67, trace)
                 /\ UNCHANGED <<scene, h>>
            ELSE /\ hide_render' = SetHidden(hide_render, x, h.true_or_false)
                 /\ hide_viewport' = SetHidden(hide_viewport, x, h.true_or_false)
                 /\ trace' = Append(trace, HideEvent(x, h.true_or_false))
                 /\ h' = [h EXCEPT !.i = h.i + 1]
                 /\ UNCHANGED <<mute, frame_current, frame_start, frame_end,
                                filepath, pc, stack, error>>
    /\ UNCHANGED <<dirs, stdout, rc, r, m, w, rf, hist>>

\* hide_objects called on its own, on any visibility flags.
InitHide ==
    /\ AnyFlags /\ NoneMuted /\ RestOfScene /\ IdleInit
    /\ frame_current = 1 /\ frame_end = 250
    /\ dirs = {}
    /\ \E names \in SeqsUpTo(Names, MaxNames), v \in BOOLEAN :
          h = [objects |-> names, true_or_false |-> v, i |-> 1]
    /\ rc = NoRC /\ r = NoR /\ m = NoM /\ w = NoW /\ rf = NoRF
    /\ pc = "hide_objects"
    /\ hist = <<Snapshot>>

\* The same call made a second time, right after the first returned.
hide_objects_again ==
    /\ pc = "done"
    /\ Len(hist) = 1
    /\ hist' = Append(hist, Snapshot)
    /\ h' = [h EXCEPT !.i = 1]
    /\ pc' = "hide_objects"
    /\ UNCHANGED <<scene, dirs, stdout, stack, error, rc, r, m, w, rf, trace>>

NextHide == hide_objects_for \/ hide_objects_again

SpecHide == InitHide /\ [][NextHide]_vars

(***************************************************************************)
(* mute_tracks (lines 20-22) and reset_tracks (lines 51-62).               *)
(***************************************************************************)
FrameSetEvent(f) == [op |-> "frame_set", frame |-> f]
MuteAllEvent(x, v) == [op |-> "mute_all", obj |-> x, val |-> v]
MuteEvent(x, t, v) == [op |-> "mute", obj |-> x, track |-> t, val |-> v]

\* mute_tracks as a slip would leave it: only the "reset" track is set.
mute_tracks_reset_only(mt, x, val) == [mt EXCEPT ![x]["reset"] = val]

\* mute_tracks(tracks, mute) on the whole nla_tracks collection of object x.
mute_tracks(mt, x, val) == [mt EXCEPT ![x] = [t \in DOMAIN mt[x] |-> val]]

\* nla_tracks[t].mute = val on object x.
SetMute(mt, x, t, val) == [mt EXCEPT ![x][t] = val]

\* One statement of the loop body of reset_tracks, leading to position `next`,
\* leaving mute flags mt and current frame f, and performing ev.
ResetLine(next, mt, f, ev) ==
    /\ pc' = next
    /\ mute' = mt
    /\ frame_current' = f
    /\ trace' = Append(trace, ev)
    /\ r' = IF next = "reset_tracks" THEN [r EXCEPT !.i = r.i + 1] ELSE r
    /\ UNCHANGED <<hide_render, hide_viewport, frame_start, frame_end, filepath,
                   dirs, stdout, stack, error, rc, h, m, w, rf, hist>>

\* Line 52: the next object, or the end of the loop.
reset_tracks_for ==
    /\ pc = "reset_tracks"
    /\ IF r.i > Len(r.obj)
       THEN Return("reset_tracks", trace)
       ELSE pc' = "reset_53" /\ UNCHANGED <<stack, trace>>
    /\ UNCHANGED <<scene, dirs, stdout, error, rc, h, r, m, w, rf, hist>>

\* Line 53.
reset_tracks_53 ==
    /\ pc = "reset_53"
    /\ ResetLine("reset_54", mute, ResetFrame, FrameSetEvent(ResetFrame))

\* Line 54: the first use of the object; None has no animation_data, and an
\* animation_data of None has no nla_tracks.
reset_tracks_54 ==
    /\ pc = "reset_54"
    /\ LET x == r.obj[r.i] IN
       IF x \in AnimObjects
       THEN ResetLine("reset_56", mute_tracks(mute, x, TRUE), frame_current,
                      MuteAllEvent(x, TRUE))
       ELSE /\ Raise("AttributeError", 54, trace)
            /\ UNCHANGED <<scene, dirs, stdout, rc, h, r, m, w, rf, hist>>

\* Line 56.
reset_tracks_56 ==
    /\ pc = "reset_56"
    /\ LET x == r.obj[r.i] IN
       ResetLine("reset_57", SetMute(mute, x, "reset", FALSE), frame_current,
                 MuteEvent(x, "reset", FALSE))

\* Line 57.
reset_tracks_57 ==
    /\ pc = "reset_57"
    /\ LET x == r.obj[r.i] IN
       ResetLine("reset_59", SetMute(mute, x, "reset", TRUE), frame_current,
                 MuteEvent(x, "reset", TRUE))

\* Line 59.
reset_tracks_59 ==
    /\ pc = "reset_59"
    /\ LET x == r.obj[r.i] IN
       ResetLine("reset_60", mute_tracks(mute, x, TRUE), frame_current,
                 MuteAllEvent(x, TRUE))

\* Line 60 as a slip would leave it: mute = True.
reset_tracks_60_muting ==
    /\ pc = "reset_60"
    /\ LET x == r.obj[r.i] IN
       ResetLine("reset_61", SetMute(mute, x, "reset", TRUE), frame_current,
                 MuteEvent(x, "reset", TRUE))

\* Line 60.
reset_tracks_60 ==
    /\ pc = "reset_60"
    /\ LET x == r.obj[r.i] IN
       ResetLine("reset_61", SetMute(mute, x, "reset", FALSE), frame_current,
                 MuteEvent(x, "reset", FALSE))

\* Line 61.
reset_tracks_61 ==
    /\ pc = "reset_61"
    /\ ResetLine("reset_62", mute, ResetFrame, FrameSetEvent(ResetFrame))

\* Line 62 as a slip would leave it: mute = False.
reset_tracks_62_unmuting ==
    /\ pc = "reset_62"
    /\ LET x == r.obj[r.i] IN
       ResetLine("reset_tracks", SetMute(mute, x, "reset", FALSE), frame_current,
                 MuteEvent(x, "reset", FALSE))

\* Line 62, the last of the loop body.
reset_tracks_62 ==
    /\ pc = "reset_62"
    /\ LET x == r.obj[r.i] IN
       ResetLine("reset_tracks", SetMute(mute, x, "reset", TRUE), frame_current,
                 MuteEvent(x, "reset", TRUE))

reset_tracks_body ==
    \/ reset_tracks_53 \/ reset_tracks_54 \/ reset_tracks_56 \/ reset_tracks_57
    \/ reset_tracks_59 \/ reset_tracks_60 \/ reset_tracks_61 \/ reset_tracks_62

\* reset_tracks called on its own, on any mute flags and current frame.
InitReset ==
    /\ AllVisible /\ AnyMute /\ RestOfScene /\ IdleInit
    /\ frame_current \in InitialFrames /\ frame_end = 250
    /\ dirs = {}
    /\ \E names \in SeqsUpTo(Names, MaxNames) : r = [obj |-> names, i |-> 1]
    /\ rc = NoRC /\ h = NoH /\ m = NoM /\ w = NoW /\ rf = NoRF
    /\ pc = "reset_tracks"
    /\ hist = <<Snapshot>>

NextReset == reset_tracks_for \/ reset_tracks_body

SpecReset == InitReset /\ [][NextReset]_vars

(***************************************************************************)
(* mute_and_unmute (lines 37-45).                                          *)
(***************************************************************************)
RECURSIVE SetEach(_, _, _, _)
\* for y in tracks: obj.animation_data.nla_tracks[y].mute = val, on the object
\* named x: the mute flags left, the host operations performed, and the
\* exception that stopped the loop ("" when it ran to its end).
SetEach(mt, x, tracks, val) ==
    IF tracks = <<>> THEN [mute |-> mt, events |-> <<>>, error |-> ""]
    ELSE IF x \notin AnimObjects
         THEN [mute |-> mt, events |-> <<>>, error |-> "AttributeError"]
    ELSE IF Head(tracks) \notin nla_tracks(x)
         THEN [mute |-> mt, events |-> <<>>, error |-> "KeyError"]
    ELSE LET rest == SetEach(SetMute(mt, x, Head(tracks), val), x, Tail(tracks), val)
         IN  [rest EXCEPT !.events = <<MuteEvent(x, Head(tracks), val)>> \o @]

\* One turn of the for loop of line 38 (lines 39-45), or its end. The elements
\* of tracks_to_mute and tracks_to_unmute are lists, so `!= 0` holds of them.
mute_and_unmute_for ==
    /\ pc = "mute_and_unmute"
    /\ IF m.i > Len(m.zipped)
       THEN /\ Return("mute_and_unmute", trace)
            /\ UNCHANGED <<mute, error, m>>
       ELSE LET x == m.zipped[m.i]
                muted == SetEach(mute, x[1], x[2], TRUE)
                unmuted == SetEach(muted.mute, x[1], x[3], FALSE)
            IN  IF muted.error # ""
                THEN /\ mute' = muted.mute
                     /\ Raise(muted.error, 42, trace \o muted.events)
                     /\ UNCHANGED m
                ELSE IF unmuted.error # ""
                THEN /\ mute' = unmuted.mute
                     /\ Raise(unmuted.error, 45, trace \o muted.events \o unmuted.events)
                     /\ UNCHANGED m
                ELSE /\ mute' = unmuted.mute
                     /\ trace' = trace \o muted.events \o unmuted.events
                     /\ m' = [m EXCEPT !.i = m.i + 1]
                     /\ UNCHANGED <<pc, stack, error>>
    /\ UNCHANGED <<hide_render, hide_viewport, frame_current, frame_start,
                   frame_end, filepath, dirs, stdout, rc, h, r, w, rf, hist>>

(***************************************************************************)
(* render_frame (lines 24-27) and write_animations2 (lines 47-49).         *)
(***************************************************************************)
RenderEvent(path) == [op |-> "render", filepath |-> path]

\* Line 48 as a slip would leave it: range(start_frame, end_frame, step).
RangeStop_exclusive(end_frame) == end_frame

\* The stop of range(start_frame, end_frame + 1, step) (line 48).
RangeStop(end_frame) == end_frame + 1

\* Line 48: the next frame of the range and the call of render_frame with it
\* (line 49), or the end of the loop.
write_animations2_for ==
    /\ pc = "write_animations2"
    /\ IF w.next < RangeStop(w.end_frame)
       THEN /\ rf' = [frame |-> w.next, filepath |-> FramePath(w.output_path, w.next)]
            /\ w' = [w EXCEPT !.next = w.next + w.step]
            /\ Call("render_frame", <<w.next, FramePath(w.output_path, w.next)>>,
                    "write_animations2")
       ELSE /\ Return("write_animations2", trace)
            /\ UNCHANGED <<w, rf>>
    /\ UNCHANGED <<scene, dirs, stdout, error, rc, h, r, m, hist>>

\* Lines 25-27: frame_set, the render path, the render written to that path.
render_frame ==
    /\ pc = "render_frame"
    /\ frame_current' = rf.frame
    /\ filepath' = rf.filepath
    /\ Return("render_frame",
              trace \o <<FrameSetEvent(rf.frame), RenderEvent(rf.filepath)>>)
    /\ UNCHANGED <<hide_render, hide_viewport, mute, frame_start, frame_end,
                   dirs, stdout, error, rc, h, r, m, w, rf, hist>>

\* write_animations2 called on its own with any start_frame, end_frame, step.
InitWrite ==
    /\ AllVisible /\ NoneMuted /\ RestOfScene /\ IdleInit
    /\ frame_current = 1 /\ frame_end = 250
    /\ dirs = {}
    /\ \E start \in StartFrames, span \in -3..MaxSpan, step \in 1..MaxStep :
          w = [output_path |-> PathJoin(PathJoin(base_path \o "squirrel", "Idle1"), "Idle1"),
               step |-> step, start_frame |-> start, end_frame |-> start + span,
               next |-> start]
    /\ rc = NoRC /\ h = NoH /\ r = NoR /\ m = NoM /\ rf = NoRF
    /\ pc = "write_animations2"
    /\ hist = <<>>

NextWrite == write_animations2_for \/ render_frame

SpecWrite == InitWrite /\ [][NextWrite]_vars

(***************************************************************************)
(* run_case (lines 70-114).                                                *)
(***************************************************************************)
\* Line 75.
run_case_75 ==
    /\ pc = "run_case_75"
    /\ h' = [objects |-> <<"visibleground">>, true_or_false |-> TRUE, i |-> 1]
    /\ Call("hide_objects", <<<<"visibleground">>, TRUE>>, "run_case_76")
    /\ UNCHANGED <<scene, dirs, stdout, error, rc, r, m, w, rf, hist>>

\* Line 76.
run_case_76 ==
    /\ pc = "run_case_76"
    /\ h' = [objects |-> <<"ShadowPlane">>, true_or_false |-> FALSE, i |-> 1]
    /\ Call("hide_objects", <<<<"ShadowPlane">>, FALSE>>, "run_case_82")
    /\ UNCHANGED <<scene, dirs, stdout, error, rc, r, m, w, rf, hist>>

\* Lines 82-89 as a slip would leave them: frame_end set after the match, for
\* every animal.
run_case_match_frame_end ==
    /\ pc = "run_case_82"
    /\ IF rc.animal_name = "squirrel"
       THEN /\ rc' = [rc EXCEPT !.objects = [bound |-> TRUE, val |-> <<"rig">>],
                                !.anims_left = animation_list]
            /\ UNCHANGED stdout
       ELSE /\ rc' = [rc EXCEPT !.anims_left = animation_list]
            /\ stdout' = Append(stdout, "Animal " \o rc.animal_name \o " not supported!")
    /\ frame_end' = SquirrelFrameEnd
    /\ pc' = "run_case_96"
    /\ UNCHANGED <<hide_render, hide_viewport, mute, frame_current, frame_start,
                   filepath, dirs, stack, error, h, r, m, w, rf, trace, hist>>

\* Lines 82-89 as a slip would leave them: `objects` bound before the match.
run_case_match_objects ==
    /\ pc = "run_case_82"
    /\ IF rc.animal_name = "squirrel"
       THEN /\ rc' = [rc EXCEPT !.objects = [bound |-> TRUE, val |-> <<"rig">>],
                                !.anims_left = animation_list]
            /\ frame_end' = SquirrelFrameEnd
            /\ UNCHANGED stdout
       ELSE /\ rc' = [rc EXCEPT !.objects = [bound |-> TRUE, val |-> <<"rig">>],
                                !.anims_left = animation_list]
            /\ stdout' = Append(stdout, "Animal " \o rc.animal_name \o " not supported!")
            /\ UNCHANGED frame_end
    /\ pc' = "run_case_96"
    /\ UNCHANGED <<hide_render, hide_viewport, mute, frame_current, frame_start,
                   filepath, dirs, stack, error, h, r, m, w, rf, trace, hist>>

\* Lines 82-89: the match statement, then the animation list.
run_case_match ==
    /\ pc = "run_case_82"
    /\ IF rc.animal_name = "squirrel"
       THEN /\ rc' = [rc EXCEPT !.objects = [bound |-> TRUE, val |-> <<"rig">>],
                                !.anims_left = animation_list]
            /\ frame_end' = SquirrelFrameEnd
            /\ UNCHANGED stdout
       ELSE /\ rc' = [rc EXCEPT !.anims_left = animation_list]
            /\ stdout' = Append(stdout, "Animal " \o rc.animal_name \o " not supported!")
            /\ UNCHANGED frame_end
    /\ pc' = "run_case_96"
    /\ UNCHANGED <<hide_render, hide_viewport, mute, frame_current, frame_start,
                   filepath, dirs, stack, error, h, r, m, w, rf, trace, hist>>

\* Line 96: the next animation and lines 98-103, or the end of run_case.
run_case_for ==
    /\ pc = "run_case_96"
    /\ IF rc.anims_left = <<>>
       THEN /\ Return("run_case", trace)
            /\ UNCHANGED <<rc, h>>
       ELSE /\ rc' = [rc EXCEPT !.anim = Head(rc.anims_left),
                                !.anims_left = Tail(rc.anims_left),
                                !.end_frame = frame_end,
                                !.unmute_rig = <<Head(rc.anims_left), "Rotation">>]
            /\ h' = [objects |-> <<"ShadowPlane">>, true_or_false |-> FALSE, i |-> 1]
            /\ Call("hide_objects", <<<<"ShadowPlane">>, FALSE>>, "run_case_105")
    /\ UNCHANGED <<scene, dirs, stdout, error, r, m, w, rf, hist>>

\* Lines 105-107 as a slip would leave them: mute_and_unmute before
\* reset_tracks, which then goes straight on to line 109.
run_case_105_swapped ==
    /\ pc = "run_case_105"
    /\ IF rc.objects.bound
       THEN /\ m' = [zipped |-> Zip(rc.objects.val, <<mute_rig>>, <<rc.unmute_rig>>),
                     i |-> 1]
            /\ r' = [obj |-> rc.objects.val, i |-> 1]
            /\ pc' = "mute_and_unmute"
            /\ stack' = <<"reset_tracks", "run_case_109">> \o stack
            /\ trace' = Append(trace, CallEvent("mute_and_unmute",
                           <<rc.objects.val, <<mute_rig>>, <<rc.unmute_rig>>>>))
            /\ UNCHANGED error
       ELSE /\ Raise("UnboundLocalError", 105, trace)
            /\ UNCHANGED <<r, m>>
    /\ UNCHANGED <<scene, dirs, stdout, rc, h, w, rf, hist>>

\* Line 105: `objects` is read; it is bound only by the "squirrel" case.
run_case_105 ==
    /\ pc = "run_case_105"
    /\ IF rc.objects.bound
       THEN /\ r' = [obj |-> rc.objects.val, i |-> 1]
            /\ Call("reset_tracks", <<rc.objects.val>>, "run_case_107")
            /\ UNCHANGED error
       ELSE /\ Raise("UnboundLocalError", 105, trace)
            /\ UNCHANGED r
    /\ UNCHANGED m
    /\ UNCHANGED <<scene, dirs, stdout, rc, h, w, rf, hist>>

\* Line 107.
run_case_107 ==
    /\ pc = "run_case_107"
    /\ m' = [zipped |-> Zip(rc.objects.val, <<mute_rig>>, <<rc.unmute_rig>>), i |-> 1]
    /\ Call("mute_and_unmute", <<rc.objects.val, <<mute_rig>>, <<rc.unmute_rig>>>>,
            "run_case_109")
    /\ UNCHANGED <<scene, dirs, stdout, error, rc, h, r, w, rf, hist>>

\* Lines 109-114.
run_case_109 ==
    /\ pc = "run_case_109"
    /\ LET output_path == PathJoin(base_path \o rc.animal_name, rc.anim) IN
       /\ dirs' = IF output_path \in dirs THEN dirs ELSE dirs \cup MakeDirs(output_path)
       /\ w' = [output_path |-> PathJoin(output_path, rc.anim), step |-> Step,
                start_frame |-> StartFrame, end_frame |-> rc.end_frame,
                next |-> StartFrame]
       /\ Call("write_animations2",
               <<PathJoin(output_path, rc.anim), Step, StartFrame, rc.end_frame>>,
               "run_case_96")
    /\ UNCHANGED <<scene, stdout, error, rc, h, r, m, rf, hist>>

\* run_case(animal_name) on any scene.
Init ==
    /\ AnyFlags /\ AnyMute /\ RestOfScene /\ IdleInit
    /\ frame_current \in InitialFrames
    /\ frame_end \in InitialFrameEnds
    /\ dirs \in {{}, MakeDirs(PathJoin(base_path \o "squirrel", "Idle1"))}
    /\ \E a \in Animals : rc = [NoRC EXCEPT !.animal_name = a]
    /\ h = NoH /\ r = NoR /\ m = NoM /\ w = NoW /\ rf = NoRF
    /\ pc = "run_case_75"
    /\ hist = <<>>

Next ==
    \/ run_case_75 \/ run_case_76 \/ run_case_match \/ run_case_for
    \/ run_case_105 \/ run_case_107 \/ run_case_109
    \/ hide_objects_for
    \/ reset_tracks_for \/ reset_tracks_body
    \/ mute_and_unmute_for
    \/ write_animations2_for \/ render_frame

Spec == Init /\ [][Next]_vars

(***************************************************************************)
(* Reading the trace.                                                      *)
(***************************************************************************)
IsCall(e, fn) == e.op = "call" /\ e.fn = fn
IsReturn(e, fn) == e.op = "return" /\ e.fn = fn
IsHostOp(e) == e.op \notin {"call", "return"}

\* The calls of render_frame so far, in order; args are <<frame, filepath>>.
RenderCalls == SelectSeq(trace, LAMBDA e : IsCall(e, "render_frame"))

\* The host operations so far, in order.
HostOps == SelectSeq(trace, IsHostOp)

\* The positions before i of the calls of fn, and of its returns.
CallsBefore(i, fn) == {j \in 1..(i - 1) : IsCall(trace[j], fn)}
ReturnsBefore(i, fn) == {j \in 1..(i - 1) : IsReturn(trace[j], fn)}

\* The largest element of a set of positions, 0 when it is empty.
Last(S) == IF S = {} THEN 0 ELSE CHOOSE j \in S : \A k \in S : k <= j

IsPrefix(s, t) == Len(s) <= Len(t) /\ SubSeq(t, 1, Len(s)) = s

Range(s) == {s[i] : i \in 1..Len(s)}

Supported(a) == a = "squirrel"

\* The line run_case prints for an unsupported animal.
Diagnostic(a) == "Animal " \o a \o " not supported!"

(***************************************************************************)
(* C1: at every call of render_frame made during run_case, on each object   *)
(* of the object list the layer of the animation being rendered is unmuted  *)
(* and every other layer named in the animation list is muted, whatever the *)
(* mute flags were before the run and whatever was rendered earlier.        *)
(***************************************************************************)
C1_OneAnimationUnmuted ==
    pc = "render_frame" =>
        /\ rc.anim \in Range(animation_list)
        /\ rf.filepath =
              FramePath(PathJoin(PathJoin(base_path \o rc.animal_name, rc.anim), rc.anim),
                        rf.frame)
        /\ \A o \in Range(rc.objects.val) :
              /\ ~mute[o][rc.anim]
              /\ \A a \in Range(animation_list) \ {rc.anim} : mute[o][a]

\* "Walk" is being rendered, after "Idle1" was.
C1_Witness ==
    /\ pc = "render_frame"
    /\ rc.anim = "Walk"
    /\ rf.frame = 159
    /\ \E e \in Range(RenderCalls) :
          e.args[2] = "//renders/squirrel/Idle1/Idle1_159.png"

(***************************************************************************)
(* C2, as claimed: for an unsupported animal a diagnostic is produced and   *)
(* no step of run_case changes a visibility flag, a mute flag, the current  *)
(* frame or the frame range.                                                *)
(***************************************************************************)
DiagnosticProduced ==
    (~Supported(rc.animal_name) /\ pc \in {"done", "fault"}) =>
        stdout = <<Diagnostic(rc.animal_name)>>

C2_NoMutation ==
    /\ []DiagnosticProduced
    /\ [][~Supported(rc.animal_name) =>
            UNCHANGED <<hide_render, hide_viewport, mute, frame_current,
                        frame_start, frame_end>>]_vars

(***************************************************************************)
(* C2, amended: for an unsupported animal a diagnostic is produced and no   *)
(* step of run_case changes a mute flag, the current frame or the frame     *)
(* range; the only visibility flags a step changes are those of             *)
(* "visibleground", to hidden, and of "ShadowPlane", to visible, which      *)
(* lines 75, 76 and 103 set whatever the animal.                            *)
(***************************************************************************)
OnlyGroundPlanes(old, new) ==
    \A o \in Objects :
        new[o] # old[o] =>
            \/ o = "visibleground" /\ new[o]
            \/ o = "ShadowPlane" /\ ~new[o]

C2_OnlyVisibilityChanges ==
    /\ []DiagnosticProduced
    /\ [][~Supported(rc.animal_name) =>
            /\ UNCHANGED <<mute, frame_current, frame_start, frame_end>>
            /\ OnlyGroundPlanes(hide_render, hide_render')
            /\ OnlyGroundPlanes(hide_viewport, hide_viewport')]_vars

\* The run for an unsupported animal has ended, the planes set by then.
C2_Witness ==
    /\ ~Supported(rc.animal_name)
    /\ pc = "fault"
    /\ stdout = <<"Animal cat not supported!">>
    /\ hide_render["visibleground"] /\ hide_viewport["visibleground"]
    /\ ~hide_render["ShadowPlane"] /\ ~hide_viewport["ShadowPlane"]

(***************************************************************************)
(* C3: when write_animations2 returns, with end_frame >= start_frame and    *)
(* step >= 1, render_frame was called floor((end - start) / step) + 1       *)
(* times: once for each frame of [start, end] congruent to start modulo     *)
(* step, and for no other frame.                                            *)
(***************************************************************************)
TimesRendered(f) ==
    Cardinality({i \in 1..Len(RenderCalls) : RenderCalls[i].args[1] = f})

C3_RenderCount ==
    (pc = "done" /\ w.end_frame >= w.start_frame /\ w.step >= 1) =>
        /\ Len(RenderCalls) = ((w.end_frame - w.start_frame) \div w.step) + 1
        /\ \A i \in 1..Len(RenderCalls) :
              RenderCalls[i].args[1] \in w.start_frame..w.end_frame
        /\ \A f \in w.start_frame..w.end_frame :
              TimesRendered(f) = IF (f - w.start_frame) % w.step = 0 THEN 1 ELSE 0

\* The call returned over a range whose last frame is not end_frame: step 2
\* over a span of 3 renders 2 frames.
C3_Witness ==
    /\ pc = "done"
    /\ w.step = 2
    /\ w.end_frame = w.start_frame + 3
    /\ Len(RenderCalls) = 2

(***************************************************************************)
(* C4: in run_case("squirrel") the frames rendered for "Idle1" are exactly  *)
(* 1, 3, ..., 159, 80 renders to Idle1_001.png ... Idle1_159.png, and at    *)
(* each of them "ShadowPlane" is visible and "visibleground" is hidden.     *)
(***************************************************************************)
Digit(d) == SubSeq("0123456789", d + 1, d + 1)

\* The file the scenario names for frame f of "Idle1", f < 1000.
IdleFile(f) ==
    "//renders/squirrel/Idle1/Idle1_"
        \o Digit(f \div 100) \o Digit((f \div 10) % 10) \o Digit(f % 10) \o ".png"

IdleCalls ==
    SelectSeq(RenderCalls,
              LAMBDA e : IsPrefix("//renders/squirrel/Idle1/", e.args[2]))

C4_SquirrelIdle1 ==
    /\ (pc = "render_frame" /\ rc.animal_name = "squirrel" /\ rc.anim = "Idle1") =>
          /\ ~hide_render["ShadowPlane"] /\ ~hide_viewport["ShadowPlane"]
          /\ hide_render["visibleground"] /\ hide_viewport["visibleground"]
          /\ rf.frame \in {2 * i - 1 : i \in 1..80}
          /\ rf.filepath = IdleFile(rf.frame)
    /\ (pc = "done" /\ rc.animal_name = "squirrel") =>
          /\ IdleCalls = [i \in 1..80 |->
                CallEvent("render_frame", <<2 * i - 1, IdleFile(2 * i - 1)>>)]
          /\ IdleCalls[1].args[2] = "//renders/squirrel/Idle1/Idle1_001.png"
          /\ IdleCalls[80].args[2] = "//renders/squirrel/Idle1/Idle1_159.png"

\* The run for "squirrel" has ended, "Idle1" rendered.
C4_Witness ==
    /\ pc = "done"
    /\ rc.animal_name = "squirrel"
    /\ Len(IdleCalls) = 80

(***************************************************************************)
(* C5: after reset_tracks(obj) returns for a non-empty list, the "reset"    *)
(* layer of every listed object is muted and the current frame is 1,        *)
(* whatever the mute flags and the current frame were before the call.      *)
(***************************************************************************)
C5_ResetLeavesMuted ==
    (pc = "done" /\ r.obj # <<>>) =>
        /\ frame_current = 1
        /\ \A o \in Range(r.obj) : mute[o]["reset"]

\* The call returned, from a frame other than 1 and a "reset" layer unmuted.
C5_Witness ==
    /\ pc = "done"
    /\ r.obj # <<>>
    /\ hist[1].frame_current # 1
    /\ \A o \in Range(r.obj) : ~hist[1].mute[o]["reset"]

(***************************************************************************)
(* C6: within one call of write_animations2 the file names are unique and   *)
(* ordered: for frames f1 < f2 of the range, both <= 999, the name for f1   *)
(* differs from and sorts before the name for f2. Frames are not negative:  *)
(* start_frame is 1 (line 80) or scene.frame_start (line 47).               *)
(***************************************************************************)
C6_NamesOrdered ==
    \A i, j \in 1..Len(RenderCalls) :
        (/\ RenderCalls[i].args[1] < RenderCalls[j].args[1]
         /\ RenderCalls[j].args[1] <= 999) =>
            /\ RenderCalls[i].args[2] # RenderCalls[j].args[2]
            /\ StrLess(RenderCalls[i].args[2], RenderCalls[j].args[2])

\* Frames with two and with three digits were both rendered.
C6_Witness ==
    /\ pc = "done"
    /\ \E i, j \in 1..Len(RenderCalls) :
          RenderCalls[i].args[1] = 99 /\ RenderCalls[j].args[1] = 100

(***************************************************************************)
(* C7: hide_objects(names, True) called twice in a row on resolvable names  *)
(* leaves the flags of every object as one call does, and the flags of the  *)
(* objects not named as they were.                                          *)
(***************************************************************************)
C7_HideIdempotent ==
    (pc = "done" /\ Len(hist) = 2 /\ h.true_or_false) =>
        /\ hide_render = hist[2].hide_render
        /\ hide_viewport = hist[2].hide_viewport
        /\ \A o \in Objects \ Range(h.objects) :
              /\ hide_render[o] = hist[1].hide_render[o]
              /\ hide_viewport[o] = hist[1].hide_viewport[o]
              /\ hist[2].hide_render[o] = hist[1].hide_render[o]
              /\ hist[2].hide_viewport[o] = hist[1].hide_viewport[o]

\* The second call returned; the first had flags to change and flags to leave.
C7_Witness ==
    /\ pc = "done"
    /\ Len(hist) = 2
    /\ h.true_or_false
    /\ \E o \in Range(h.objects) : ~hist[1].hide_render[o] /\ ~hist[1].hide_viewport[o]
    /\ \E o \in Objects \ Range(h.objects) : ~hist[1].hide_render[o]

(***************************************************************************)
(* C8, as claimed: for each object reset_tracks performs exactly mute-all,  *)
(* unmute(reset), mute-all, unmute(reset), frame-set(1), mute(reset), and   *)
(* the last frame-set(1) happens while "reset" is the only unmuted layer.   *)
(***************************************************************************)
ClaimedOps(x) ==
    <<MuteAllEvent(x, TRUE), MuteEvent(x, "reset", FALSE),
      MuteAllEvent(x, TRUE), MuteEvent(x, "reset", FALSE),
      FrameSetEvent(1), MuteEvent(x, "reset", TRUE)>>

\* What lines 53-62 perform on object x.
ResetOps(x) ==
    <<FrameSetEvent(1), MuteAllEvent(x, TRUE),
      MuteEvent(x, "reset", FALSE), MuteEvent(x, "reset", TRUE),
      MuteAllEvent(x, TRUE), MuteEvent(x, "reset", FALSE),
      FrameSetEvent(1), MuteEvent(x, "reset", TRUE)>>

RECURSIVE OpsOfAll(_, _)
\* The operations of a list of objects, one object after the other.
OpsOfAll(objs, claimed) ==
    IF objs = <<>> THEN <<>>
    ELSE (IF claimed THEN ClaimedOps(Head(objs)) ELSE ResetOps(Head(objs)))
            \o OpsOfAll(Tail(objs), claimed)

\* Line 61 is about to run on an object whose only unmuted layer is "reset".
OnlyResetUnmuted ==
    pc = "reset_61" =>
        \A t \in nla_tracks(r.obj[r.i]) : mute[r.obj[r.i]][t] = (t # "reset")

C8_ClaimedOrder ==
    /\ (pc = "done" => HostOps = OpsOfAll(r.obj, TRUE))
    /\ OnlyResetUnmuted

(***************************************************************************)
(* C8, amended: for each object reset_tracks performs exactly frame-set(1), *)
(* mute-all, unmute(reset), mute(reset), mute-all, unmute(reset),           *)
(* frame-set(1), mute(reset), in that order, and the last frame-set(1)      *)
(* happens while "reset" is the only unmuted layer of that object.          *)
(***************************************************************************)
C8_ResetOrder ==
    /\ IsPrefix(HostOps, OpsOfAll(r.obj, FALSE))
    /\ (pc = "done" => HostOps = OpsOfAll(r.obj, FALSE))
    /\ OnlyResetUnmuted

\* The second frame-set(1) of the second object is about to run.
C8_Witness ==
    /\ pc = "reset_61"
    /\ r.i = 2
    /\ r.obj = <<"ShadowPlane", "rig">>

(***************************************************************************)
(* C9: in run_case every call of render_frame comes after the reset_tracks  *)
(* and the mute_and_unmute of its animation have returned, in that order,   *)
(* and before the reset_tracks of the next animation is called; the         *)
(* animations come in list order; the frames of an animation come in        *)
(* strictly increasing order, one render returning before the next starts.  *)
(***************************************************************************)
RenderInOrder(i) ==
    LET k == Cardinality(CallsBefore(i, "reset_tracks"))
        resetCall == Last(CallsBefore(i, "reset_tracks"))
        resetReturn == Last(ReturnsBefore(i, "reset_tracks"))
        muteCall == Last(CallsBefore(i, "mute_and_unmute"))
        muteReturn == Last(ReturnsBefore(i, "mute_and_unmute"))
        prev == Last(CallsBefore(i, "render_frame"))
    IN  /\ k \in 1..Len(animation_list)
        /\ rc.anim = animation_list[k]
        /\ trace[i].args[2] =
              FramePath(PathJoin(PathJoin(base_path \o rc.animal_name,
                                          animation_list[k]), animation_list[k]),
                        trace[i].args[1])
        /\ Cardinality(ReturnsBefore(i, "reset_tracks")) = k
        /\ Cardinality(CallsBefore(i, "mute_and_unmute")) = k
        /\ Cardinality(ReturnsBefore(i, "mute_and_unmute")) = k
        /\ resetCall < resetReturn
        /\ resetReturn < muteCall
        /\ muteCall < muteReturn
        /\ prev > 0 =>
              /\ \E q \in (prev + 1)..(i - 1) : IsReturn(trace[q], "render_frame")
              /\ prev > muteReturn => trace[prev].args[1] < trace[i].args[1]
              /\ prev < muteReturn =>
                    /\ prev < resetCall
                    /\ k > 1
                    /\ IsPrefix(PathJoin(base_path \o rc.animal_name,
                                         animation_list[k - 1]) \o "/",
                                trace[prev].args[2])

C9_TopDown ==
    (Len(trace) > 0 /\ IsCall(trace[Len(trace)], "render_frame")) =>
        RenderInOrder(Len(trace))

\* The first render of "Walk" has just been called.
C9_Witness ==
    /\ pc = "render_frame"
    /\ rc.anim = "Walk"
    /\ rf.frame = 1
    /\ IsCall(trace[Len(trace)], "render_frame")

(***************************************************************************)
(* C10: for an unsupported animal run_case prints the diagnostic, goes on   *)
(* with `objects` unbound, and stops with an exception at line 105, the     *)
(* reset_tracks call of the first animation: render_frame was never called  *)
(* and no mute flag was set.                                                *)
(***************************************************************************)
C10_UnknownSubjectFaults ==
    ~Supported(rc.animal_name) =>
        /\ ~rc.objects.bound
        /\ pc \in {"run_case_75", "run_case_76", "run_case_82", "run_case_96",
                   "run_case_105", "hide_objects", "fault"}
        /\ pc # "fault" => ENABLED Next
        /\ pc \in {"run_case_96", "run_case_105", "fault"} =>
              stdout = <<Diagnostic(rc.animal_name)>>
        /\ pc = "fault" =>
              /\ error = [type |-> "UnboundLocalError", line |-> 105]
              /\ rc.anim = animation_list[1]
              /\ RenderCalls = <<>>
              /\ \A e \in Range(trace) : e.op \notin {"mute", "mute_all", "frame_set"}

\* The run for "cat" stopped at line 105.
C10_Witness ==
    /\ rc.animal_name = "cat"
    /\ pc = "fault"
    /\ error.line = 105
    /\ Len(stdout) = 1

====
